---- MODULE Spec2Model ----
(***************************************************************************)
(* Real-time conversation fan-out of fasolink: the websocket consumers     *)
(* (api/consumers.py), the token middleware (api/middleware.py), the       *)
(* fan-out helpers (api/ws_events.py) and the REST handlers that share the *)
(* same store and groups (api/views.py).                                   *)
(*                                                                         *)
(* The channel layer (channels.layers) is a library: it is modelled by its *)
(* contract, groups as sets of channels and one FIFO queue per channel.    *)
(* Each consumer handler runs to completion before the next message of the *)
(* same consumer is dispatched; the steps of connect() are separated at    *)
(* its await on accept(), and SpecSteps separates receive_json and the     *)
(* mark-read request at their awaits and between their statements.         *)
(***************************************************************************)
EXTENDS Integers, Sequences, FiniteSets, TLC

\* ------------------------------------------------------------------ bounds
MaxEvents == 2          \* inbound socket events and REST requests in a run
MaxLen == 2             \* longest content string
MaxRequests == 3        \* frames and mark-read requests in a run taken by steps

\* ------------------------------------------------------- program constants
FORBIDDEN == 4403       \* close code used by both connect() methods

\* ---------------------------------------------------------------- domains
Anon == 0                                   \* AnonymousUser
Users == 1..3                               \* User rows
Principals == Users \cup {Anon}
ConvIds == 1..2                             \* conversation ids of the paths
ChatConns == {1, 2}                         \* sockets of ws/conversations/<id>/
NotifConns == {3}                           \* sockets of ws/notifications/
Conns == ChatConns \cup NotifConns
Tokens == {"none", "tok1", "tok2", "tok3", "bad"}
Chars == {" ", "a"}

Listings == 1..2                            \* Listing rows (ids)
StartReqs == 1..2                           \* start requests that can be in flight
Unset == <<"unset", 0>>                     \* attribute group_name not set
ConvoGroup_shared(cid) == <<"convo", 1>>    \* one name for every conversation
ConvoGroup(cid) == <<"convo", cid>>         \* f"convo_{conversation_id}"
UserGroup(uid) == <<"user", uid>>           \* f"user_{user.id}"
GroupIds == {ConvoGroup(i) : i \in ConvIds} \cup {UserGroup(u) : u \in Users}

RECURSIVE StringsUpTo(_)
StringsUpTo(n) ==
    IF n = 0 THEN {<< >>}
    ELSE LET S == StringsUpTo(n - 1)
         IN  S \cup {Append(s, ch) : s \in {t \in S : Len(t) = n - 1}, ch \in Chars}

Absent == [t |-> "absent"]                  \* key missing / None
NonString == [t |-> "num"]                  \* a truthy JSON number
Str(s) == [t |-> "str", s |-> s]
Contents == {Absent, NonString} \cup {Str(s) : s \in StringsUpTo(MaxLen)}
Actions == {"typing", "message", "read", "other", "absent"}
\* Inbound frames: receive_json reads `content` for action "message" only.
Inbound ==
    {[action |-> "message", content |-> k] : k \in Contents}
    \cup {[action |-> a, content |-> Absent] : a \in Actions \ {"message"}}

VARIABLES
    connState,      \* per connection: position in its life cycle
    connKind,       \* consumer the URL router chose ("none" before handshake)
    connUser,       \* scope['user']
    connConvo,      \* scope['url_route']['kwargs']['conversation_id']
    groupName,      \* self.group_name, Unset while the attribute is missing
    accepted,       \* accept() was called
    closeCode,      \* code the consumer passed to close(), 0 before any close
    raised,         \* exception that left a handler of the connection
    groups,         \* channel layer: group -> set of channels
    chan,           \* channel layer: per channel queue of group messages
    sent,           \* frames written to the client with send_json
    convos,         \* Conversation rows (ids)
    participants,   \* Conversation.participants
    messages,       \* Message rows, in creation order
    reads,          \* MessageRead rows, in creation order
    nextId,         \* next Message primary key
    clock,          \* value auto_now_add gives the next row
    events,         \* requests handled so far
    lastOp,         \* the request handled last, and what it returned
    pre,            \* the store and the deliveries as that request found them
    inbox,          \* per connection: the frames that arrived, in arrival order
    task,           \* per connection: the receive_json run that is at an await
    rest,           \* per user: the mark-read request that is between its statements
    log,            \* per connection: what its receive_json runs did, in order
    reported,       \* per user: sum of the `updated` counts reported for its reads
    listing,        \* Conversation.listing, 0 where the id has no row
    start           \* per request: the start-conversation request before its INSERT

vars == <<connState, connKind, connUser, connConvo, groupName, accepted,
          closeCode, raised, groups, chan, sent, convos,
          participants, messages, reads, nextId, clock, events, lastOp, pre,
          inbox, task, rest, log, reported, listing, start>>

connVars == <<connState, connKind, connUser, connConvo, groupName, accepted,
              closeCode, raised>>
layerVars == <<groups, chan>>
dbVars == <<convos, participants, messages, reads, nextId, clock>>
stepVars == <<inbox, task, rest, log, reported>>
startVars == <<listing, start>>

\* No receive_json run, and no mark-read request, is in progress.
IdleTask == [pc |-> "idle"]

NoArg == [action |-> "absent", content |-> Absent]

\* The rows of the store and, per connection, the number of group messages
\* put on its channel so far (queued or already handled).
Snapshot(ms, rs, q, st) ==
    [messages |-> ms, reads |-> rs, count |-> [c \in Conns |-> Len(q[c]) + Len(st[c])]]

\* An inbound event or a REST request records what it found; any other
\* request leaves nothing to compare and records what it left.
Found == pre' = Snapshot(messages, reads, chan, sent)
Settled == pre' = Snapshot(messages', reads', chan', sent')

NoOp == [op |-> "init", conn |-> 0, arg |-> NoArg, user |-> Anon, convo |-> 0,
         status |-> "ok", result |-> 0, streak |-> 0]

Init ==
    /\ connState = [c \in Conns |-> "CONNECTING"]
    /\ connKind = [c \in Conns |-> "none"]
    /\ connUser = [c \in Conns |-> Anon]
    /\ connConvo = [c \in Conns |-> 0]
    /\ groupName = [c \in Conns |-> Unset]
    /\ accepted = [c \in Conns |-> FALSE]
    /\ closeCode = [c \in Conns |-> 0]
    /\ raised = [c \in Conns |-> "none"]
    /\ groups = [g \in GroupIds |-> {}]
    /\ chan = [c \in Conns |-> << >>]
    /\ sent = [c \in Conns |-> << >>]
    /\ convos = ConvIds
    /\ participants = [i \in ConvIds |-> IF i = 1 THEN {1, 2} ELSE {2, 3}]
    /\ messages = << >>
    /\ reads = << >>
    /\ nextId = 1
    /\ clock = 100
    /\ events = 0
    /\ lastOp = NoOp
    /\ pre = Snapshot(messages, reads, chan, sent)
    /\ inbox = [c \in Conns |-> << >>]
    /\ task = [c \in Conns |-> IdleTask]
    /\ rest = [u \in Users |-> IdleTask]
    /\ log = [c \in Conns |-> << >>]
    /\ reported = [u \in Users |-> 0]
    /\ listing = [i \in ConvIds |-> i]
    /\ start = [r \in StartReqs |-> IdleTask]

\* ------------------------------------------------------------ middleware
\* The rows of authtoken.Token: one key per user.
TokenRows == {[key |-> "tok1", user |-> 1], [key |-> "tok2", user |-> 2],
              [key |-> "tok3", user |-> 3]}

\* Token.objects.filter(key=key).first(): the row's user, or None.
get_token(key) ==
    IF \E row \in TokenRows : row.key = key
    THEN (CHOOSE row \in TokenRows : row.key = key).user
    ELSE Anon

\* get_user without its try/except around the lookup.
get_user_unguarded(key, lookupRaises) ==
    IF key = "none" THEN Anon ELSE get_token(key)

\* TokenAuthMiddleware.get_user: AnonymousUser without a key, when no row
\* matches and when the lookup raises.
get_user(key, lookupRaises) ==
    IF key = "none" THEN Anon
    ELSE IF lookupRaises THEN Anon
    ELSE get_token(key)

\* TokenAuthMiddleware.__call__ followed by the URL router.
Handshake(c) ==
    /\ connState[c] = "CONNECTING"
    /\ \E key \in Tokens, lookupRaises \in BOOLEAN, cid \in ConvIds :
         /\ connUser' = [connUser EXCEPT ![c] = get_user(key, lookupRaises)]
         /\ connKind' = [connKind EXCEPT ![c] = IF c \in ChatConns THEN "chat" ELSE "notif"]
         /\ connConvo' = [connConvo EXCEPT ![c] = IF c \in ChatConns THEN cid ELSE 0]
         /\ lastOp' = [NoOp EXCEPT !.op = "handshake", !.conn = c,
                                   !.arg = [key |-> key, raises |-> lookupRaises]]
    /\ connState' = [connState EXCEPT ![c] = "AUTHORIZING"]
    /\ UNCHANGED <<groupName, accepted, closeCode, raised,
                   layerVars, sent, dbVars, events>>
    /\ Settled
    /\ UNCHANGED <<stepVars, startVars>>

\* ---------------------------------------------------------- channel layer
group_add(gs, g, ch) == [gs EXCEPT ![g] = @ \cup {ch}]

\* No-op when the channel is not in the group.
group_discard(gs, g, ch) == [gs EXCEPT ![g] = @ \ {ch}]

\* The message goes to the head of each queue: the newest is handled first.
group_send_front(q, gs, g, ev) ==
    [ch \in Conns |-> IF ch \in gs[g] THEN <<ev>> \o q[ch] ELSE q[ch]]

\* One copy of the message on the queue of every channel there is.
group_send_all(q, gs, g, ev) == [ch \in Conns |-> Append(q[ch], ev)]

\* One copy of the message on the queue of every channel of the group.
group_send(q, gs, g, ev) ==
    [ch \in Conns |-> IF ch \in gs[g] THEN Append(q[ch], ev) ELSE q[ch]]

\* --------------------------------------------------------- ghost records
Streak(op, c, arg) ==
    IF lastOp.op = op /\ lastOp.conn = c /\ lastOp.arg = arg /\ lastOp.status = "ok"
    THEN IF lastOp.streak < 2 THEN lastOp.streak + 1 ELSE 2
    ELSE 1

Op(op, c, arg, user, cid, status, result) ==
    [op |-> op, conn |-> c, arg |-> arg, user |-> user, convo |-> cid,
     status |-> status, result |-> result, streak |-> Streak(op, c, arg)]

\* No handler has a try/except: an exception leaves the handler and ends
\* the consumer, the server drops the socket, and no disconnect() runs.
Raise(c, err) ==
    /\ connState' = [connState EXCEPT ![c] = "CRASHED"]
    /\ raised' = [raised EXCEPT ![c] = err]
    /\ UNCHANGED closeCode

\* ------------------------------------------------------------ ChatConsumer
\* Any authenticated user of an existing conversation is let in.
user_allowed_any(user, cid) ==
    IF user = Anon THEN "deny"
    ELSE IF cid \notin convos THEN "Http404"
    ELSE "allow"

\* ChatConsumer._user_allowed
user_allowed(user, cid) ==
    IF user = Anon THEN "deny"
    ELSE IF cid \notin convos THEN "Http404"
    ELSE IF user \in participants[cid] THEN "allow" ELSE "deny"

\* connect() without the return after close(): the join follows the close.
ChatConnect_noreturn(c) ==
    /\ connState[c] = "AUTHORIZING"
    /\ connKind[c] = "chat"
    /\ groupName' = [groupName EXCEPT ![c] = ConvoGroup(connConvo[c])]
    /\ LET is_allowed == user_allowed(connUser[c], connConvo[c])
       IN  CASE is_allowed = "Http404" ->
                  /\ Raise(c, "Http404")
                  /\ UNCHANGED groups
             [] is_allowed = "deny" ->
                  /\ groups' = group_add(groups, ConvoGroup(connConvo[c]), c)
                  /\ connState' = [connState EXCEPT ![c] = "JOINED"]
                  /\ closeCode' = [closeCode EXCEPT ![c] = FORBIDDEN]
                  /\ UNCHANGED raised
             [] is_allowed = "allow" ->
                  /\ groups' = group_add(groups, ConvoGroup(connConvo[c]), c)
                  /\ connState' = [connState EXCEPT ![c] = "JOINED"]
                  /\ UNCHANGED <<closeCode, raised>>
    /\ lastOp' = Op("connect", c, NoArg, connUser[c], connConvo[c],
                    user_allowed(connUser[c], connConvo[c]), 0)
    /\ UNCHANGED <<connKind, connUser, connConvo, accepted,
                   chan, sent, dbVars, events>>
    /\ Settled
    /\ UNCHANGED <<stepVars, startVars>>

\* ChatConsumer.connect up to its await on accept().
ChatConnect(c) ==
    /\ connState[c] = "AUTHORIZING"
    /\ connKind[c] = "chat"
    /\ groupName' = [groupName EXCEPT ![c] = ConvoGroup(connConvo[c])]
    /\ LET is_allowed == user_allowed(connUser[c], connConvo[c])
       IN  CASE is_allowed = "Http404" ->
                  /\ Raise(c, "Http404")
                  /\ UNCHANGED groups
             [] is_allowed = "deny" ->
                  /\ connState' = [connState EXCEPT ![c] = "REJECTED"]
                  /\ closeCode' = [closeCode EXCEPT ![c] = FORBIDDEN]
                  /\ UNCHANGED <<groups, raised>>
             [] is_allowed = "allow" ->
                  /\ groups' = group_add(groups, ConvoGroup(connConvo[c]), c)
                  /\ connState' = [connState EXCEPT ![c] = "JOINED"]
                  /\ UNCHANGED <<closeCode, raised>>
    /\ lastOp' = Op("connect", c, NoArg, connUser[c], connConvo[c],
                    user_allowed(connUser[c], connConvo[c]), 0)
    /\ UNCHANGED <<connKind, connUser, connConvo, accepted,
                   chan, sent, dbVars, events>>
    /\ Settled
    /\ UNCHANGED <<stepVars, startVars>>

\* UserNotificationsConsumer.connect up to its await on accept().
NotifConnect(c) ==
    /\ connState[c] = "AUTHORIZING"
    /\ connKind[c] = "notif"
    /\ IF connUser[c] = Anon
       THEN /\ connState' = [connState EXCEPT ![c] = "REJECTED"]
            /\ closeCode' = [closeCode EXCEPT ![c] = FORBIDDEN]
            /\ UNCHANGED <<groupName, groups>>
       ELSE /\ groupName' = [groupName EXCEPT ![c] = UserGroup(connUser[c])]
            /\ groups' = group_add(groups, UserGroup(connUser[c]), c)
            /\ connState' = [connState EXCEPT ![c] = "JOINED"]
            /\ UNCHANGED closeCode
    /\ lastOp' = Op("connect", c, NoArg, connUser[c], 0,
                    IF connUser[c] = Anon THEN "deny" ELSE "allow", 0)
    /\ UNCHANGED <<connKind, connUser, connConvo, accepted, raised,
                   chan, sent, dbVars, events>>
    /\ Settled
    /\ UNCHANGED <<stepVars, startVars>>

\* The accept() that ends both connect() methods.
Accept(c) ==
    /\ connState[c] = "JOINED"
    /\ connState' = [connState EXCEPT ![c] = "OPEN"]
    /\ accepted' = [accepted EXCEPT ![c] = TRUE]
    /\ lastOp' = Op("accept", c, NoArg, connUser[c], connConvo[c], "ok", 0)
    /\ UNCHANGED <<connKind, connUser, connConvo, groupName, closeCode, raised,
                   layerVars, sent, dbVars, events>>
    /\ Settled
    /\ UNCHANGED <<stepVars, startVars>>

\* A leave that insists on the channel being a member (remove, not discard).
disconnect_strict(c) ==
    /\ IF groupName[c] = Unset
       THEN /\ Raise(c, "AttributeError")
            /\ UNCHANGED groups
            /\ lastOp' = Op("disconnect", c, NoArg, connUser[c], connConvo[c], "raised", 0)
       ELSE IF c \notin groups[groupName[c]]
       THEN /\ Raise(c, "KeyError")
            /\ UNCHANGED groups
            /\ lastOp' = Op("disconnect", c, NoArg, connUser[c], connConvo[c], "raised", 0)
       ELSE /\ groups' = group_discard(groups, groupName[c], c)
            /\ connState' = [connState EXCEPT ![c] = "CLOSED"]
            /\ UNCHANGED <<raised, closeCode>>
            /\ lastOp' = Op("disconnect", c, NoArg, connUser[c], connConvo[c], "ok", 0)
    /\ UNCHANGED <<connKind, connUser, connConvo, groupName, accepted,
                   chan, sent, dbVars, events>>
    /\ Settled
    /\ UNCHANGED <<stepVars, startVars>>

\* disconnect() of either consumer: group_discard(self.group_name, ...).
\* Reading self.group_name raises AttributeError while it was never set.
disconnect(c) ==
    /\ IF groupName[c] = Unset
       THEN /\ Raise(c, "AttributeError")
            /\ UNCHANGED groups
            /\ lastOp' = Op("disconnect", c, NoArg, connUser[c], connConvo[c], "raised", 0)
       ELSE /\ groups' = group_discard(groups, groupName[c], c)
            /\ connState' = [connState EXCEPT ![c] = "CLOSED"]
            /\ UNCHANGED <<raised, closeCode>>
            /\ lastOp' = Op("disconnect", c, NoArg, connUser[c], connConvo[c], "ok", 0)
    /\ UNCHANGED <<connKind, connUser, connConvo, groupName, accepted,
                   chan, sent, dbVars, events>>
    /\ Settled
    /\ UNCHANGED <<stepVars, startVars>>

\* ChatConsumer.disconnect, on transport teardown or called again.
ChatDisconnect(c) ==
    /\ connKind[c] = "chat"
    /\ connState[c] \in {"OPEN", "REJECTED", "CLOSED"}
    /\ disconnect(c)

\* UserNotificationsConsumer.disconnect, likewise.
NotifDisconnect(c) ==
    /\ connKind[c] = "notif"
    /\ connState[c] \in {"OPEN", "REJECTED", "CLOSED"}
    /\ disconnect(c)

\* ------------------------------------------------------------------ store
\* str.strip(): leading and trailing whitespace removed, inner kept.
RECURSIVE lstrip(_)
lstrip(s) == IF s = << >> THEN s ELSE IF Head(s) = " " THEN lstrip(Tail(s)) ELSE s

RECURSIVE rstrip(_)
rstrip(s) ==
    IF s = << >> THEN s
    ELSE IF s[Len(s)] = " " THEN rstrip(SubSeq(s, 1, Len(s) - 1)) ELSE s

\* Only the leading whitespace goes.
strip_left(s) == lstrip(s)

\* Nothing is trimmed.
strip_none(s) == s

strip(s) == rstrip(lstrip(s))

\* (content.get('content') or ''): None and '' both give ''.
or_empty(k) == IF k.t = "str" THEN k.s ELSE << >>

\* datetime.isoformat() and User.username: the value in another type.
isoformat(t) == <<"iso", t>>
username(u) == <<"username", u>>

\* Message.objects.create(conversation=convo, sender=user, content=content)
create_message(user, cid, text) ==
    [id |-> nextId, conversation |-> cid, sender |-> user, content |-> text,
     timestamp |-> clock]

\* The payload stamped with the time of the broadcast, not of the row.
MessagePayload_now(msg) ==
    [id |-> msg.id, content |-> msg.content, sender_id |-> msg.sender,
     sender |-> username(msg.sender), timestamp |-> isoformat(msg.timestamp + 1)]

\* The payload receive_json builds from the row it created.
MessagePayload(msg) ==
    [id |-> msg.id, content |-> msg.content, sender_id |-> msg.sender,
     sender |-> username(msg.sender), timestamp |-> isoformat(msg.timestamp)]

HasRead(rs, mid, user) == \E i \in 1..Len(rs) : rs[i].message = mid /\ rs[i].user = user

\* The messages of the others, read or not.
unread_all(user, cid) ==
    LET Keep(m) == m.conversation = cid /\ m.sender # user
    IN  SelectSeq(messages, Keep)

\* convo.messages.exclude(sender=user).exclude(reads__user=user)
unread(user, cid) ==
    LET Keep(m) == m.conversation = cid /\ m.sender # user /\ ~HasRead(reads, m.id, user)
    IN  SelectSeq(messages, Keep)

\* [MessageRead(message=m, user=user) for m in unread]
to_create(user, cid) ==
    [i \in 1..Len(unread(user, cid)) |-> [message |-> unread(user, cid)[i].id, user |-> user]]

\* An insert of every row, as if no pair could conflict.
bulk_create_all(rs, rows) == rs \o rows

\* bulk_create(rows, ignore_conflicts=True) under unique_together
\* ("message", "user"): a row whose pair exists is skipped.
RECURSIVE bulk_create(_, _)
bulk_create(rs, rows) ==
    IF rows = << >> THEN rs
    ELSE bulk_create(IF HasRead(rs, Head(rows).message, Head(rows).user)
                     THEN rs ELSE Append(rs, Head(rows)),
                     Tail(rows))

Stay == UNCHANGED <<connState, raised, closeCode>>

\* The sender is not left out of its own broadcast.
send_to_group_others(c, ev) ==
    [ch \in Conns |-> IF ch \in groups[groupName[c]] \ {c} THEN Append(chan[ch], ev) ELSE chan[ch]]

\* The event also goes to the user groups of the conversation's participants.
send_to_group_and_users(c, ev) ==
    [ch \in Conns |->
        IF \/ ch \in groups[groupName[c]]
           \/ \E u \in participants[connConvo[c]] \ {connUser[c]} : ch \in groups[UserGroup(u)]
        THEN Append(chan[ch], ev) ELSE chan[ch]]

\* self.channel_layer.group_send(self.group_name, ev)
send_to_group(c, ev) == group_send(chan, groups, groupName[c], ev)

\* The user taken from the frame where the frame names one.
payload_user(c, content) ==
    IF "user_id" \in DOMAIN content THEN content.user_id ELSE connUser[c]

\* user = self.scope.get('user'): the frame has no say in it.
scope_user(c, content) == connUser[c]

\* ChatConsumer.receive_json
receive_json(c, content) ==
    LET user == scope_user(c, content)
        cid == connConvo[c]
        text == strip(or_empty(content.content))
        msg == create_message(user, cid, text)
    IN
    /\ events' = events + 1
    /\ IF content.action = "typing" THEN
            /\ chan' = send_to_group(c, [type |-> "chat.typing", user_id |-> user])
            /\ Stay
            /\ UNCHANGED dbVars
            /\ lastOp' = Op("receive", c, content, user, cid, "ok", 0)
       ELSE IF content.action = "message" THEN
            IF content.content = NonString THEN
                /\ Raise(c, "AttributeError")
                /\ UNCHANGED <<chan, dbVars>>
                /\ lastOp' = Op("receive", c, content, user, cid, "raised", 0)
            ELSE IF text = << >> THEN
                /\ Stay
                /\ UNCHANGED <<chan, dbVars>>
                /\ lastOp' = Op("receive", c, content, user, cid, "ok", 0)
            ELSE IF cid \notin convos THEN
                /\ Raise(c, "DoesNotExist")
                /\ UNCHANGED <<chan, dbVars>>
                /\ lastOp' = Op("receive", c, content, user, cid, "raised", 0)
            ELSE
                /\ messages' = Append(messages, msg)
                /\ nextId' = nextId + 1
                /\ clock' = clock + 1
                /\ chan' = send_to_group(c, [type |-> "chat.message",
                                              message |-> MessagePayload(msg)])
                /\ Stay
                /\ UNCHANGED <<convos, participants, reads>>
                /\ lastOp' = Op("receive", c, content, user, cid, "ok", msg.id)
       ELSE IF content.action = "read" THEN
            IF cid \notin convos THEN
                /\ Raise(c, "DoesNotExist")
                /\ UNCHANGED <<chan, dbVars>>
                /\ lastOp' = Op("receive", c, content, user, cid, "raised", 0)
            ELSE
                /\ reads' = bulk_create(reads, to_create(user, cid))
                /\ chan' = send_to_group(c, [type |-> "chat.read", user_id |-> user,
                                              updated |-> Len(to_create(user, cid))])
                /\ Stay
                /\ UNCHANGED <<convos, participants, messages, nextId, clock>>
                /\ lastOp' = Op("receive", c, content, user, cid, "ok",
                                Len(to_create(user, cid)))
       ELSE
            /\ Stay
            /\ UNCHANGED <<chan, dbVars>>
            /\ lastOp' = Op("receive", c, content, user, cid, "ok", 0)
    /\ UNCHANGED <<connKind, connUser, connConvo, groupName, accepted, groups, sent>>
    /\ Found
    /\ UNCHANGED <<stepVars, startVars>>

\* An inbound frame reaches an accepted ChatConsumer.
ChatReceive(c) ==
    /\ connKind[c] = "chat"
    /\ connState[c] = "OPEN"
    /\ events < MaxEvents
    /\ \E content \in Inbound : receive_json(c, content)

\* Frames that carry more than receive_json reads: a user id, a message id
\* and a timestamp of the client's choosing.
ForgedId == 7
ForgedFrames ==
    {[action |-> a, content |-> k, user_id |-> u, id |-> ForgedId, timestamp |-> 0] :
        a \in {"typing", "message", "read"}, k \in {Absent, Str(<<"a">>)}, u \in Users}

\* Such a frame reaches an accepted ChatConsumer.
ForgedReceive(c) ==
    /\ connKind[c] = "chat"
    /\ connState[c] = "OPEN"
    /\ events < MaxEvents
    /\ \E content \in ForgedFrames : receive_json(c, content)

\* UserNotificationsConsumer.receive_json: pass, whatever the frame holds.
NotifReceive(c) ==
    /\ connKind[c] = "notif"
    /\ connState[c] = "OPEN"
    /\ events < MaxEvents
    /\ events' = events + 1
    /\ lastOp' = Op("receive", c, NoArg, connUser[c], 0, "ok", 0)
    /\ UNCHANGED <<connVars, layerVars, sent, dbVars>>
    /\ Found
    /\ UNCHANGED <<stepVars, startVars>>

\* chat_message, chat_typing and chat_read: the frame written for a group
\* message. `event.get('updated', 0)` always finds the key here.
ChatFrame(ev) ==
    CASE ev.type = "chat.message" -> [event |-> "message.created", message |-> ev.message]
      [] ev.type = "chat.typing" -> [event |-> "typing", user_id |-> ev.user_id]
      [] ev.type = "chat.read" ->
            [event |-> "read", user_id |-> ev.user_id, updated |-> ev.updated]

\* A group message is handled as soon as it is on the channel, whether or
\* not connect() has returned and whether or not the consumer has stopped.
ChatDispatch_anytime(c) ==
    /\ connKind[c] = "chat"
    /\ chan[c] # << >>
    /\ chan' = [chan EXCEPT ![c] = Tail(@)]
    /\ sent' = [sent EXCEPT ![c] = Append(@, ChatFrame(Head(chan[c])))]
    /\ UNCHANGED <<connVars, groups, dbVars, events, lastOp, pre, stepVars, startVars>>

\* The consumer takes the next group message off its channel and runs the
\* handler named by its type; a type without a handler raises ValueError.
\* It does so between handler runs only: after connect() has returned, and
\* not after disconnect() has.
ChatDispatch(c) ==
    /\ connKind[c] = "chat"
    /\ connState[c] = "OPEN"
    /\ task[c] = IdleTask
    /\ chan[c] # << >>
    /\ chan' = [chan EXCEPT ![c] = Tail(@)]
    /\ IF Head(chan[c]).type \in {"chat.message", "chat.typing", "chat.read"}
       THEN /\ sent' = [sent EXCEPT ![c] = Append(@, ChatFrame(Head(chan[c])))]
            /\ Stay
       ELSE /\ Raise(c, "ValueError")
            /\ UNCHANGED sent
    /\ UNCHANGED <<connKind, connUser, connConvo, groupName, accepted, groups,
                   dbVars, events, lastOp, pre, stepVars, startVars>>

\* The whole group message is written, not its data.
notify_enveloped(ev) == ev

\* UserNotificationsConsumer.notify: send_json(event.get('data', {})).
notify(ev) == IF "data" \in DOMAIN ev THEN ev.data ELSE << >>

\* The notification consumer takes the next group message off its channel.
NotifDispatch(c) ==
    /\ connKind[c] = "notif"
    /\ connState[c] = "OPEN"
    /\ task[c] = IdleTask
    /\ chan[c] # << >>
    /\ chan' = [chan EXCEPT ![c] = Tail(@)]
    /\ IF Head(chan[c]).type = "notify"
       THEN /\ sent' = [sent EXCEPT ![c] = Append(@, notify(Head(chan[c])))]
            /\ Stay
       ELSE /\ Raise(c, "ValueError")
            /\ UNCHANGED sent
    /\ UNCHANGED <<connKind, connUser, connConvo, groupName, accepted, groups,
                   dbVars, events, lastOp, pre, stepVars, startVars>>

\* ------------------------------------------------------------------- REST
\* ListingDetailView DELETE: the listing row goes, and with it (on_delete=
\* CASCADE) its conversation, the conversation's messages and their reads.
\* The listing deleted is the one of conversation cid. Groups are not touched.
DeleteListing(cid) ==
    /\ cid \in convos
    /\ LET Dead == {k \in convos : listing[k] = listing[cid]}
           Keep(m) == m.conversation \notin Dead
           Gone == {messages[i].id : i \in {j \in 1..Len(messages) : messages[j].conversation \in Dead}}
           KeepRead(r) == r.message \notin Gone
       IN  /\ convos' = convos \ Dead
           /\ participants' = [k \in ConvIds |-> IF k \in Dead THEN {} ELSE participants[k]]
           /\ listing' = [k \in ConvIds |-> IF k \in Dead THEN 0 ELSE listing[k]]
           /\ messages' = SelectSeq(messages, Keep)
           /\ reads' = SelectSeq(reads, KeepRead)
    /\ lastOp' = Op("delete_listing", 0, NoArg, Anon, cid, "ok", 0)
    /\ UNCHANGED <<connVars, layerVars, sent, nextId, clock, events>>
    /\ Settled
    /\ UNCHANGED <<stepVars, start>>

\* A row of Conversation.participants is removed by a writer of the store.
\* No view of this repository does it; the sockets of the user stay open.
RemoveParticipant(u, cid) ==
    /\ cid \in convos
    /\ u \in participants[cid]
    /\ participants' = [participants EXCEPT ![cid] = @ \ {u}]
    /\ lastOp' = Op("remove_participant", 0, NoArg, u, cid, "ok", 0)
    /\ UNCHANGED <<connVars, layerVars, sent, convos, messages, reads, nextId, clock, events>>
    /\ Settled
    /\ UNCHANGED <<stepVars, startVars>>

\* notify_user for each user of `us`, in primary-key order.
RECURSIVE notify_users(_, _, _)
notify_users(q, us, data) ==
    IF us = {} THEN q
    ELSE LET u == CHOOSE x \in us : \A y \in us : x <= y
         IN  notify_users(group_send(q, groups, UserGroup(u), [type |-> "notify", data |-> data]),
                          us \ {u}, data)

\* ws_events.broadcast_conversation_message
broadcast_conversation_message(q, cid, payload) ==
    group_send(q, groups, ConvoGroup(cid), [type |-> "chat.message", message |-> payload])

\* The payload perform_create builds: the row's fields and the attachments.
RestPayload(msg) ==
    [id |-> msg.id, content |-> msg.content, sender_id |-> msg.sender,
     sender |-> username(msg.sender), timestamp |-> isoformat(msg.timestamp),
     attachments |-> << >>]

\* Where a group_send of a REST handler raises: nowhere, in the broadcast to
\* the conversation, or in the notification of the other participants.
Faults == {"none", "broadcast", "notify"}

\* The handler without its try/except: the exception becomes the response.
after_broadcast_unguarded(status, fault) == IF fault = "none" THEN status ELSE "500"

\* try: <broadcast> except Exception: pass -- the response is not touched.
after_broadcast(status, fault) == status

\* The broadcast and the notifications each in a guarded block of its own:
\* a broadcast that raises does not keep the notifications back.
publish_each(q, cid, u, payload, fault) ==
    CASE fault = "broadcast" ->
            notify_users(q, participants[cid] \ {u},
                         [event |-> "conversation.updated", conversation_id |-> cid])
      [] fault = "notify" -> broadcast_conversation_message(q, cid, payload)
      [] OTHER ->
            notify_users(broadcast_conversation_message(q, cid, payload),
                         participants[cid] \ {u},
                         [event |-> "conversation.updated", conversation_id |-> cid])

\* The try block of perform_create: the broadcast to the conversation, then
\* a notification for every participant but the sender; the first call that
\* raises ends the block.
publish(q, cid, u, payload, fault) ==
    CASE fault = "broadcast" -> q
      [] fault = "notify" -> broadcast_conversation_message(q, cid, payload)
      [] OTHER ->
            notify_users(broadcast_conversation_message(q, cid, payload),
                         participants[cid] \ {u},
                         [event |-> "conversation.updated", conversation_id |-> cid])

\* POST conversations/<id>/messages/: IsAuthenticated, then the serializer
\* (content required, trimmed, not blank), then perform_create.
RestCreateMessage(u, cid, content, fault) ==
    LET text == strip(or_empty(content))
        msg == create_message(u, cid, text)
        saved == IF u = Anon THEN "401"
                 ELSE IF text = << >> THEN "400"
                 ELSE IF cid \notin convos THEN "404"
                 ELSE IF u \notin participants[cid] THEN "403"
                 ELSE "201"
        status == IF saved = "201" THEN after_broadcast(saved, fault) ELSE saved
    IN
    /\ events < MaxEvents
    /\ events' = events + 1
    /\ saved # "201" => fault = "none"
    /\ IF saved = "201"
       THEN /\ messages' = Append(messages, msg)
            /\ nextId' = nextId + 1
            /\ clock' = clock + 1
            /\ chan' = publish(chan, cid, u, RestPayload(msg), fault)
            /\ UNCHANGED <<convos, participants, reads>>
       ELSE UNCHANGED <<chan, dbVars>>
    /\ lastOp' = Op("rest_message", 0, [fault |-> fault], u, cid, status,
                    IF saved = "201" THEN msg.id ELSE 0)
    /\ UNCHANGED <<connVars, groups, sent>>
    /\ Found
    /\ UNCHANGED <<stepVars, startVars>>

\* The read event without the reader: user_id is left out.
broadcast_conversation_read_anonymous(q, cid, u, updated) ==
    group_send(q, groups, ConvoGroup(cid), [type |-> "chat.read", user_id |-> Anon,
                                             updated |-> updated])

\* ws_events.broadcast_conversation_read
broadcast_conversation_read(q, cid, u, updated) ==
    group_send(q, groups, ConvoGroup(cid), [type |-> "chat.read", user_id |-> u,
                                             updated |-> updated])

\* POST conversations/<id>/read/: MarkConversationReadView.post.
RestMarkRead(u, cid, fault) ==
    LET rows == to_create(u, cid)
        found == IF u = Anon THEN "401"
                 ELSE IF cid \notin convos THEN "404"
                 ELSE IF u \notin participants[cid] THEN "403"
                 ELSE "200"
        status == IF found = "200" THEN after_broadcast(found, fault) ELSE found
    IN
    /\ events < MaxEvents
    /\ events' = events + 1
    /\ fault # "notify"
    /\ found # "200" => fault = "none"
    /\ IF found = "200"
       THEN /\ reads' = bulk_create(reads, rows)
            /\ chan' = IF fault = "none"
                       THEN broadcast_conversation_read(chan, cid, u, Len(rows))
                       ELSE chan
            /\ UNCHANGED <<convos, participants, messages, nextId, clock>>
       ELSE UNCHANGED <<chan, dbVars>>
    /\ lastOp' = Op("rest_mark", 0, [fault |-> fault], u, cid, status,
                    IF found = "200" THEN Len(rows) ELSE 0)
    /\ UNCHANGED <<connVars, groups, sent>>
    /\ Found
    /\ UNCHANGED <<stepVars, startVars>>

\* ---------------------------------------------------- handlers by steps
\* receive_json and MarkConversationReadView.post, separated where another
\* consumer, another worker or another request can run in between: at each
\* await, and between the SELECT of the unread rows and the INSERT.

\* A frame reaches the socket and waits for the consumer.
Arrive(c, f) ==
    /\ connKind[c] = "chat"
    /\ connState[c] = "OPEN"
    /\ events < MaxRequests
    /\ events' = events + 1
    /\ inbox' = [inbox EXCEPT ![c] = Append(@, f)]
    /\ UNCHANGED <<connVars, layerVars, sent, dbVars, lastOp, pre,
                   task, rest, log, reported, startVars>>

\* Frames of connection c whose receive_json run has started.
Started(c) == Cardinality({i \in 1..Len(log[c]) : log[c][i][2] = "start"})

\* The consumer starts the next frame whatever the run before it is doing.
Idle_always(c) == TRUE

\* The consumer awaits every call of receive_json: it takes the next frame
\* only when the run before it has returned.
Idle(c) == task[c] = IdleTask

\* receive_json up to its first await that another request can overtake.
Begin(c) ==
    LET k == Started(c) + 1
        f == inbox[c][k]
        user == connUser[c]
        cid == connConvo[c]
        text == strip(or_empty(f.content))
        msg == create_message(user, cid, text)
        Note(steps) == log' = [log EXCEPT ![c] = @ \o [i \in 1..Len(steps) |-> <<k, steps[i]>>]]
    IN
    /\ connKind[c] = "chat"
    /\ connState[c] = "OPEN"
    /\ Idle(c)
    /\ Started(c) < Len(inbox[c])
    /\ IF f.action = "typing" THEN
            /\ task' = [task EXCEPT ![c] = [pc |-> "send", seq |-> k,
                            ev |-> [type |-> "chat.typing", user_id |-> user]]]
            /\ Note(<<"start">>)
            /\ Stay
            /\ UNCHANGED dbVars
       ELSE IF f.action = "message" THEN
            IF f.content = NonString THEN
                /\ Raise(c, "AttributeError")
                /\ Note(<<"start">>)
                /\ UNCHANGED <<task, dbVars>>
            ELSE IF text = << >> THEN
                /\ Stay
                /\ Note(<<"start", "end">>)
                /\ UNCHANGED <<task, dbVars>>
            ELSE IF cid \notin convos THEN
                /\ Raise(c, "DoesNotExist")
                /\ Note(<<"start">>)
                /\ UNCHANGED <<task, dbVars>>
            ELSE
                /\ messages' = Append(messages, msg)
                /\ nextId' = nextId + 1
                /\ clock' = clock + 1
                /\ task' = [task EXCEPT ![c] = [pc |-> "send", seq |-> k,
                                ev |-> [type |-> "chat.message",
                                        message |-> MessagePayload(msg)]]]
                /\ Note(<<"start", "store">>)
                /\ Stay
                /\ UNCHANGED <<convos, participants, reads>>
       ELSE IF f.action = "read" THEN
            IF cid \notin convos THEN
                /\ Raise(c, "DoesNotExist")
                /\ Note(<<"start">>)
                /\ UNCHANGED <<task, dbVars>>
            ELSE
                /\ task' = [task EXCEPT ![c] = [pc |-> "mark", seq |-> k,
                                rows |-> to_create(user, cid)]]
                /\ Note(<<"start">>)
                /\ Stay
                /\ UNCHANGED dbVars
       ELSE
            /\ Stay
            /\ Note(<<"start", "end">>)
            /\ UNCHANGED <<task, dbVars>>
    /\ UNCHANGED <<connKind, connUser, connConvo, groupName, accepted,
                   layerVars, sent, events, lastOp, pre, inbox, rest, reported,
                   startVars>>

\* _mark_read from bulk_create on: the rows chosen by the SELECT are
\* inserted and their number is what the run will report.
Mark(c) ==
    /\ task[c].pc = "mark"
    /\ reads' = bulk_create(reads, task[c].rows)
    /\ task' = [task EXCEPT ![c] = [pc |-> "send", seq |-> task[c].seq,
                    ev |-> [type |-> "chat.read", user_id |-> connUser[c],
                            updated |-> Len(task[c].rows)]]]
    /\ log' = [log EXCEPT ![c] = Append(@, <<task[c].seq, "store">>)]
    /\ lastOp' = Op("mark", c, NoArg, connUser[c], connConvo[c], "ok", Len(task[c].rows))
    /\ Found
    /\ UNCHANGED <<connVars, layerVars, sent, convos, participants, messages,
                   nextId, clock, events, inbox, rest, reported, startVars>>

\* The group_send that ends a branch of receive_json, and its return.
Send(c) ==
    /\ task[c].pc = "send"
    /\ chan' = send_to_group(c, task[c].ev)
    /\ task' = [task EXCEPT ![c] = IdleTask]
    /\ log' = [log EXCEPT ![c] = @ \o <<(<<task[c].seq, "send">>), (<<task[c].seq, "end">>)>>]
    /\ reported' = IF task[c].ev.type = "chat.read"
                   THEN [reported EXCEPT ![connUser[c]] = @ + task[c].ev.updated]
                   ELSE reported
    /\ UNCHANGED <<connVars, groups, sent, dbVars, events, lastOp, pre, inbox, rest,
                   startVars>>

\* MarkConversationReadView.post up to the SELECT of the unread rows.
RestReadBegin(u, cid) ==
    /\ events < MaxRequests
    /\ events' = events + 1
    /\ IF u = Anon \/ cid \notin convos THEN UNCHANGED rest
       ELSE IF u \notin participants[cid] THEN UNCHANGED rest
       ELSE /\ rest[u] = IdleTask
            /\ rest' = [rest EXCEPT ![u] = [pc |-> "mark", cid |-> cid,
                                            rows |-> to_create(u, cid)]]
    /\ UNCHANGED <<connVars, layerVars, sent, dbVars, lastOp, pre,
                   inbox, task, log, reported, startVars>>

\* Its bulk_create; created = len(to_create).
RestReadMark(u) ==
    /\ rest[u].pc = "mark"
    /\ reads' = bulk_create(reads, rest[u].rows)
    /\ rest' = [rest EXCEPT ![u] = [pc |-> "send", cid |-> rest[u].cid,
                                    updated |-> Len(rest[u].rows)]]
    /\ lastOp' = Op("rest_mark", 0, NoArg, u, rest[u].cid, "200", Len(rest[u].rows))
    /\ Found
    /\ UNCHANGED <<connVars, layerVars, sent, convos, participants, messages,
                   nextId, clock, events, inbox, task, log, reported, startVars>>

\* Its broadcast, which may raise and is then passed over, and its response.
RestReadSend(u, layerRaises) ==
    /\ rest[u].pc = "send"
    /\ chan' = IF layerRaises THEN chan
               ELSE broadcast_conversation_read(chan, rest[u].cid, u, rest[u].updated)
    /\ reported' = [reported EXCEPT ![u] = @ + rest[u].updated]
    /\ rest' = [rest EXCEPT ![u] = IdleTask]
    /\ UNCHANGED <<connVars, groups, sent, dbVars, events, lastOp, pre,
                   inbox, task, log, startVars>>

\* The rows a response lists: the messages of conversation cid.
MessagesOf(cid) ==
    LET Here(m) == m.conversation = cid
    IN  SelectSeq(messages, Here)

\* GET conversations/<id>/messages/: ConversationMessagesView.get_queryset.
RestListMessages(u, cid) ==
    LET status == IF u = Anon THEN "401"
                  ELSE IF cid \notin convos THEN "404"
                  ELSE IF u \notin participants[cid] THEN "403"
                  ELSE "200"
    IN
    /\ events < MaxEvents
    /\ events' = events + 1
    /\ lastOp' = Op("rest_messages", 0, NoArg, u, cid, status,
                    IF status = "200" THEN Len(MessagesOf(cid)) ELSE 0)
    /\ UNCHANGED <<connVars, layerVars, sent, dbVars>>
    /\ Found
    /\ UNCHANGED <<stepVars, startVars>>

\* GET conversations/<pk>/: ConversationDetailView, a RetrieveAPIView over
\* every conversation; the serializer has the conversation's messages.
RestConversationDetail(u, cid) ==
    LET status == IF u = Anon THEN "401"
                  ELSE IF cid \notin convos THEN "404"
                  ELSE "200"
    IN
    /\ events < MaxEvents
    /\ events' = events + 1
    /\ lastOp' = Op("rest_detail", 0, NoArg, u, cid, status,
                    IF status = "200" THEN Len(MessagesOf(cid)) ELSE 0)
    /\ UNCHANGED <<connVars, layerVars, sent, dbVars>>
    /\ Found
    /\ UNCHANGED <<stepVars, startVars>>

\* Listing.user: who owns the listing.
listing_user(l) == IF l = 1 THEN 1 ELSE 3

\* The conversations of listing l that both user u and the owner take part in.
existing(u, l) ==
    {k \in convos : /\ listing[k] = l
                    /\ u \in participants[k]
                    /\ listing_user(l) \in participants[k]}

\* .first() of an unordered queryset: the row of the smallest primary key.
first(ks) == CHOOSE k \in ks : \A j \in ks : k <= j

\* StartConversationView.create up to its look-up of an existing
\* conversation; l = 0 is a request without listing_id. With no conversation
\* found the request goes on to its INSERT.
StartFind(r, u, l) ==
    /\ start[r] = IdleTask
    /\ events < MaxRequests
    /\ events' = events + 1
    /\ IF u = Anon THEN
            /\ lastOp' = Op("start", r, NoArg, u, 0, "401", 0)
            /\ UNCHANGED start
       ELSE IF l = 0 THEN
            /\ lastOp' = Op("start", r, NoArg, u, 0, "400", 0)
            /\ UNCHANGED start
       ELSE IF l \notin Listings THEN
            /\ lastOp' = Op("start", r, NoArg, u, 0, "404", 0)
            /\ UNCHANGED start
       ELSE IF listing_user(l) = u THEN
            /\ lastOp' = Op("start", r, NoArg, u, 0, "400", 0)
            /\ UNCHANGED start
       ELSE IF existing(u, l) # {} THEN
            /\ lastOp' = Op("start", r, NoArg, u, first(existing(u, l)), "200", l)
            /\ UNCHANGED start
       ELSE /\ start' = [start EXCEPT ![r] = [pc |-> "create", user |-> u, listing |-> l]]
            /\ UNCHANGED lastOp
    /\ UNCHANGED <<connVars, layerVars, sent, dbVars, pre, stepVars, listing>>

\* Its Conversation.objects.create and participants.add, and the response
\* with created = true.
StartCreate(r) ==
    /\ start[r] # IdleTask
    /\ ConvIds \ convos # {}
    /\ LET k == first(ConvIds \ convos)
           u == start[r].user
           l == start[r].listing
       IN  /\ convos' = convos \cup {k}
           /\ listing' = [listing EXCEPT ![k] = l]
           /\ participants' = [participants EXCEPT ![k] = {u, listing_user(l)}]
           /\ lastOp' = Op("start", r, NoArg, u, k, "201", l)
    /\ start' = [start EXCEPT ![r] = IdleTask]
    /\ UNCHANGED <<connVars, layerVars, sent, messages, reads, nextId, clock,
                   events, pre, stepVars>>

\* -------------------------------------------------------- specifications
\* The life cycle of the connections: every handshake, join and leave.
NextLife ==
    \/ \E c \in Conns :
          \/ Handshake(c)
          \/ ChatConnect(c)
          \/ NotifConnect(c)
          \/ Accept(c)
          \/ ChatDisconnect(c)
          \/ NotifDisconnect(c)
    \/ \E cid \in ConvIds : DeleteListing(cid)

SpecLife == Init /\ [][NextLife]_vars

\* The sockets a running server holds: user 1 and user 2 on conversation 1
\* and the notification socket of user 2, all accepted and joined; user 1
\* has posted one message to conversation 1 that nobody has read yet.
RunUser(c) == IF c \in NotifConns THEN 2 ELSE c
RunConvo(c) == IF c \in NotifConns THEN 0 ELSE 1
RunGroup(c) == IF c \in NotifConns THEN UserGroup(RunUser(c)) ELSE ConvoGroup(RunConvo(c))

InitRunning ==
    /\ connState = [c \in Conns |-> "OPEN"]
    /\ connKind = [c \in Conns |-> IF c \in ChatConns THEN "chat" ELSE "notif"]
    /\ connUser = [c \in Conns |-> RunUser(c)]
    /\ connConvo = [c \in Conns |-> RunConvo(c)]
    /\ groupName = [c \in Conns |-> RunGroup(c)]
    /\ accepted = [c \in Conns |-> TRUE]
    /\ closeCode = [c \in Conns |-> 0]
    /\ raised = [c \in Conns |-> "none"]
    /\ groups = [g \in GroupIds |-> {c \in Conns : RunGroup(c) = g}]
    /\ chan = [c \in Conns |-> << >>]
    /\ sent = [c \in Conns |-> << >>]
    /\ convos = ConvIds
    /\ participants = [i \in ConvIds |-> IF i = 1 THEN {1, 2} ELSE {2, 3}]
    /\ messages = <<[id |-> 1, conversation |-> 1, sender |-> 1, content |-> <<"a">>,
                      timestamp |-> 100]>>
    /\ reads = << >>
    /\ nextId = 2
    /\ clock = 101
    /\ events = 0
    /\ lastOp = NoOp
    /\ pre = Snapshot(messages, reads, chan, sent)
    /\ inbox = [c \in Conns |-> << >>]
    /\ task = [c \in Conns |-> IdleTask]
    /\ rest = [u \in Users |-> IdleTask]
    /\ log = [c \in Conns |-> << >>]
    /\ reported = [u \in Users |-> 0]
    /\ listing = [i \in ConvIds |-> i]
    /\ start = [r \in StartReqs |-> IdleTask]

\* The traffic of the open sockets and of the REST handlers.
Next ==
    \/ \E c \in Conns :
          \/ ChatReceive(c)
          \/ NotifReceive(c)
          \/ ChatDispatch(c)
          \/ NotifDispatch(c)
          \/ ChatDisconnect(c)
          \/ NotifDisconnect(c)
    \/ \E cid \in ConvIds : DeleteListing(cid)
    \/ \E u \in Principals, cid \in ConvIds, fault \in Faults :
          \/ \E content \in Contents \ {NonString} : RestCreateMessage(u, cid, content, fault)
          \/ RestMarkRead(u, cid, fault)

Spec == InitRunning /\ [][Next]_vars

\* The traffic of the open sockets while the store's participant rows change.
NextMember ==
    \/ \E c \in ChatConns : ChatReceive(c) \/ ChatDispatch(c)
    \/ \E u \in Users, cid \in ConvIds : RemoveParticipant(u, cid)

SpecMember == InitRunning /\ [][NextMember]_vars

\* Sockets on their way in and out while messages are published: socket 1
\* (user 1, conversation 1) and the notification socket of user 2 have
\* passed the middleware, socket 2 (user 2, conversation 1) is open.
InitJoin ==
    /\ connState = [c \in Conns |-> IF c = 2 THEN "OPEN" ELSE "AUTHORIZING"]
    /\ connKind = [c \in Conns |-> IF c \in ChatConns THEN "chat" ELSE "notif"]
    /\ connUser = [c \in Conns |-> RunUser(c)]
    /\ connConvo = [c \in Conns |-> RunConvo(c)]
    /\ groupName = [c \in Conns |-> IF c = 2 THEN RunGroup(c) ELSE Unset]
    /\ accepted = [c \in Conns |-> c = 2]
    /\ closeCode = [c \in Conns |-> 0]
    /\ raised = [c \in Conns |-> "none"]
    /\ groups = [g \in GroupIds |-> IF g = RunGroup(2) THEN {2} ELSE {}]
    /\ chan = [c \in Conns |-> << >>]
    /\ sent = [c \in Conns |-> << >>]
    /\ convos = ConvIds
    /\ participants = [i \in ConvIds |-> IF i = 1 THEN {1, 2} ELSE {2, 3}]
    /\ messages = << >>
    /\ reads = << >>
    /\ nextId = 1
    /\ clock = 100
    /\ events = 0
    /\ lastOp = NoOp
    /\ pre = Snapshot(messages, reads, chan, sent)
    /\ inbox = [c \in Conns |-> << >>]
    /\ task = [c \in Conns |-> IdleTask]
    /\ rest = [u \in Users |-> IdleTask]
    /\ log = [c \in Conns |-> << >>]
    /\ reported = [u \in Users |-> 0]
    /\ listing = [i \in ConvIds |-> i]
    /\ start = [r \in StartReqs |-> IdleTask]

NextJoin ==
    \/ \E c \in Conns :
          \/ ChatConnect(c)
          \/ NotifConnect(c)
          \/ Accept(c)
          \/ ChatDisconnect(c)
          \/ NotifDisconnect(c)
          \/ ChatDispatch(c)
          \/ NotifDispatch(c)
    \/ \E u \in Users, cid \in ConvIds :
          RestCreateMessage(u, cid, Str(<<"a">>), "none")

SpecJoin == InitJoin /\ [][NextJoin]_vars

\* Two sockets of user 2 on conversation 1, which holds one message of
\* user 1 that user 2 has not read.
StepUser(c) == 2
StepFrames ==
    {f \in Inbound : /\ f.action # "absent"
                     /\ f.action = "message" => f.content \in {NonString, Str(<<"a">>)}}

InitSteps ==
    /\ connState = [c \in Conns |-> "OPEN"]
    /\ connKind = [c \in Conns |-> IF c \in ChatConns THEN "chat" ELSE "notif"]
    /\ connUser = [c \in Conns |-> StepUser(c)]
    /\ connConvo = [c \in Conns |-> RunConvo(c)]
    /\ groupName = [c \in Conns |-> RunGroup(c)]
    /\ accepted = [c \in Conns |-> TRUE]
    /\ closeCode = [c \in Conns |-> 0]
    /\ raised = [c \in Conns |-> "none"]
    /\ groups = [g \in GroupIds |-> {c \in Conns : RunGroup(c) = g}]
    /\ chan = [c \in Conns |-> << >>]
    /\ sent = [c \in Conns |-> << >>]
    /\ convos = ConvIds
    /\ participants = [i \in ConvIds |-> IF i = 1 THEN {1, 2} ELSE {2, 3}]
    /\ messages = <<[id |-> 1, conversation |-> 1, sender |-> 1, content |-> <<"a">>,
                      timestamp |-> 100]>>
    /\ reads = << >>
    /\ nextId = 2
    /\ clock = 101
    /\ events = 0
    /\ lastOp = NoOp
    /\ pre = Snapshot(messages, reads, chan, sent)
    /\ inbox = [c \in Conns |-> << >>]
    /\ task = [c \in Conns |-> IdleTask]
    /\ rest = [u \in Users |-> IdleTask]
    /\ log = [c \in Conns |-> << >>]
    /\ reported = [u \in Users |-> 0]
    /\ listing = [i \in ConvIds |-> i]
    /\ start = [r \in StartReqs |-> IdleTask]

\* The same traffic with the handlers taken step by step.
NextSteps ==
    \/ \E c \in ChatConns :
          \/ \E f \in StepFrames : Arrive(c, f)
          \/ Begin(c)
          \/ Mark(c)
          \/ Send(c)
          \/ ChatDispatch(c)
    \/ \E u \in Principals, cid \in ConvIds : RestReadBegin(u, cid)
    \/ \E u \in Users :
          \/ RestReadMark(u)
          \/ \E layerRaises \in BOOLEAN : RestReadSend(u, layerRaises)

SpecSteps == InitSteps /\ [][NextSteps]_vars

\* User 2 has a socket on each of its two conversations, user 1 a
\* notification socket; messages are created and read over both paths.
IsoUser(c) == IF c \in NotifConns THEN 1 ELSE 2
IsoConvo(c) == IF c \in NotifConns THEN 0 ELSE c
IsoGroup(c) == IF c \in NotifConns THEN UserGroup(IsoUser(c)) ELSE ConvoGroup(IsoConvo(c))

InitIso ==
    /\ connState = [c \in Conns |-> "OPEN"]
    /\ connKind = [c \in Conns |-> IF c \in ChatConns THEN "chat" ELSE "notif"]
    /\ connUser = [c \in Conns |-> IsoUser(c)]
    /\ connConvo = [c \in Conns |-> IsoConvo(c)]
    /\ groupName = [c \in Conns |-> IsoGroup(c)]
    /\ accepted = [c \in Conns |-> TRUE]
    /\ closeCode = [c \in Conns |-> 0]
    /\ raised = [c \in Conns |-> "none"]
    /\ groups = [g \in GroupIds |-> {c \in Conns : IsoGroup(c) = g}]
    /\ chan = [c \in Conns |-> << >>]
    /\ sent = [c \in Conns |-> << >>]
    /\ convos = ConvIds
    /\ participants = [i \in ConvIds |-> IF i = 1 THEN {1, 2} ELSE {2, 3}]
    /\ messages = <<[id |-> 1, conversation |-> 1, sender |-> 1, content |-> <<"a">>,
                      timestamp |-> 100]>>
    /\ reads = << >>
    /\ nextId = 2
    /\ clock = 101
    /\ events = 0
    /\ lastOp = NoOp
    /\ pre = Snapshot(messages, reads, chan, sent)
    /\ inbox = [c \in Conns |-> << >>]
    /\ task = [c \in Conns |-> IdleTask]
    /\ rest = [u \in Users |-> IdleTask]
    /\ log = [c \in Conns |-> << >>]
    /\ reported = [u \in Users |-> 0]
    /\ listing = [i \in ConvIds |-> i]
    /\ start = [r \in StartReqs |-> IdleTask]

NextIso ==
    \/ \E c \in Conns :
          \/ ChatReceive(c)
          \/ ChatDispatch(c)
          \/ NotifDispatch(c)
    \/ \E u \in Users, cid \in ConvIds :
          \/ RestCreateMessage(u, cid, Str(<<"a">>), "none")
          \/ RestMarkRead(u, cid, "none")

SpecIso == InitIso /\ [][NextIso]_vars

\* Open sockets whose clients send frames with fields of their own.
NextForged ==
    \E c \in ChatConns :
        \/ ForgedReceive(c)
        \/ ChatDispatch(c)

SpecForged == InitRunning /\ [][NextForged]_vars

\* Two users' sockets on one conversation send messages, the handlers
\* taken step by step.
OrderFrames == {[action |-> "message", content |-> Str(s)] : s \in {<<"a">>, <<"a", "a">>}}

NextOrder ==
    \E c \in ChatConns :
        \/ \E f \in OrderFrames : Arrive(c, f)
        \/ Begin(c)
        \/ Send(c)
        \/ ChatDispatch(c)

SpecOrder == InitRunning /\ [][NextOrder]_vars

\* Messages are created and read over REST.
NextRead ==
    \E u \in Principals, cid \in ConvIds :
        \/ RestCreateMessage(u, cid, Str(<<"a">>), "none")
        \/ RestListMessages(u, cid)
        \/ RestConversationDetail(u, cid)

SpecRead == InitRunning /\ [][NextRead]_vars

\* The two paths side by side: messages and reads over the sockets and over
\* REST, whose deliveries can fail, on connections that stay open.
NextPaths ==
    \/ \E c \in ChatConns :
          \/ ChatReceive(c)
          \/ ChatDispatch(c)
    \/ \E c \in NotifConns : NotifDispatch(c)
    \/ \E u \in Users, cid \in ConvIds :
          \/ \E fault \in Faults : RestCreateMessage(u, cid, Str(<<"a">>), fault)
          \/ \E fault \in Faults \ {"notify"} : RestMarkRead(u, cid, fault)

SpecPaths == InitRunning /\ [][NextPaths]_vars

\* The start requests, on a store that holds no conversation yet.
InitStart ==
    /\ connState = [c \in Conns |-> "CONNECTING"]
    /\ connKind = [c \in Conns |-> "none"]
    /\ connUser = [c \in Conns |-> Anon]
    /\ connConvo = [c \in Conns |-> 0]
    /\ groupName = [c \in Conns |-> Unset]
    /\ accepted = [c \in Conns |-> FALSE]
    /\ closeCode = [c \in Conns |-> 0]
    /\ raised = [c \in Conns |-> "none"]
    /\ groups = [g \in GroupIds |-> {}]
    /\ chan = [c \in Conns |-> << >>]
    /\ sent = [c \in Conns |-> << >>]
    /\ convos = {}
    /\ participants = [i \in ConvIds |-> {}]
    /\ messages = << >>
    /\ reads = << >>
    /\ nextId = 1
    /\ clock = 100
    /\ events = 0
    /\ lastOp = NoOp
    /\ pre = Snapshot(messages, reads, chan, sent)
    /\ inbox = [c \in Conns |-> << >>]
    /\ task = [c \in Conns |-> IdleTask]
    /\ rest = [u \in Users |-> IdleTask]
    /\ log = [c \in Conns |-> << >>]
    /\ reported = [u \in Users |-> 0]
    /\ listing = [i \in ConvIds |-> 0]
    /\ start = [r \in StartReqs |-> IdleTask]

NextStart ==
    \/ \E r \in StartReqs, u \in Principals, l \in 0..3 : StartFind(r, u, l)
    \/ \E r \in StartReqs : StartCreate(r)

SpecStart == InitStart /\ [][NextStart]_vars

\* ----------------------------------------------------------------- claims
HasConnected(c) == connState[c] \notin {"CONNECTING", "AUTHORIZING"}
InNoGroup(c) == \A g \in GroupIds : c \notin groups[g]

\* C1: a principal that is not a participant of conversation C is denied on
\* the conversation channel of C (closed with 4403, never accepted), and no
\* connection of such a principal is ever a member of group convo_C.
C1_NonParticipantDenied ==
    /\ \A c \in Conns, cid \in convos :
          c \in groups[ConvoGroup(cid)] => connUser[c] \in participants[cid]
    /\ \A c \in ChatConns :
          (/\ HasConnected(c)
           /\ connConvo[c] \in convos
           /\ connUser[c] \notin participants[connConvo[c]])
          => /\ ~accepted[c]
             /\ closeCode[c] = FORBIDDEN
             /\ InNoGroup(c)

\* C1 witness: an authenticated outsider of an existing conversation was
\* turned away while a participant sits in that conversation's group.
C1_Witness ==
    \E c \in ChatConns, d \in ChatConns :
        /\ connState[c] = "REJECTED"
        /\ connUser[c] \in Users
        /\ connConvo[c] \in convos
        /\ connUser[c] \notin participants[connConvo[c]]
        /\ d \in groups[ConvoGroup(connConvo[c])]

\* C2: an anonymous connection is closed with 4403 on the conversation and
\* on the notification channel, is never accepted, and its connect leaves
\* the membership of every group as it was.
C2_AnonymousRejected ==
    /\ [](\A c \in Conns :
            (HasConnected(c) /\ connUser[c] = Anon)
            => /\ closeCode[c] = FORBIDDEN
               /\ ~accepted[c]
               /\ InNoGroup(c))
    /\ [][\A c \in Conns :
            (/\ connState[c] = "AUTHORIZING"
             /\ connUser[c] = Anon
             /\ connState'[c] # "AUTHORIZING")
            => groups' = groups]_vars

\* C2 witness: an anonymous socket of each kind was closed with 4403 while
\* a group had a member.
C2_Witness ==
    \E c \in ChatConns, n \in NotifConns :
        /\ connUser[c] = Anon /\ connState[c] = "REJECTED" /\ closeCode[c] = FORBIDDEN
        /\ connUser[n] = Anon /\ connState[n] = "REJECTED" /\ closeCode[n] = FORBIDDEN
        /\ \E g \in GroupIds : groups[g] # {}

DisconnectStep(c) == ChatDisconnect(c) \/ NotifDisconnect(c)

\* C7: disconnect on a connection that has a group, run once or again,
\* raises nothing, leaves the connection out of its group and leaves every
\* other connection's membership as it was.
C7_DisconnectIdempotent ==
    [][\A c \in Conns :
          (groupName[c] # Unset /\ DisconnectStep(c))
          => /\ raised'[c] = "none"
             /\ connState'[c] = "CLOSED"
             /\ c \notin groups'[groupName[c]]
             /\ \A g \in GroupIds : groups'[g] \ {c} = groups[g] \ {c}]_vars

\* C7 witness: the second disconnect of a socket whose group has another
\* member has run.
C7_Witness ==
    /\ lastOp.op = "disconnect"
    /\ lastOp.streak = 2
    /\ lastOp.status = "ok"
    /\ groupName[lastOp.conn] # Unset
    /\ groups[groupName[lastOp.conn]] # {}

\* C8: disconnect raises in no connection state, on either channel, also
\* for a connection that was rejected and never joined a group.
C8_DisconnectNeverRaises ==
    lastOp.op = "disconnect" => lastOp.status = "ok"

\* t is s without its leading and its trailing blanks.
IsTrimOf(t, s) ==
    \E i \in 1..(Len(s) + 1), j \in 0..Len(s) :
        /\ t = (IF i <= j THEN SubSeq(s, i, j) ELSE << >>)
        /\ \A k \in 1..(i - 1) : s[k] = " "
        /\ \A k \in (j + 1)..Len(s) : s[k] = " "
        /\ t # << >> => (t[1] # " " /\ t[Len(t)] # " ")

HasText(k) == k.t = "str" /\ \E i \in 1..Len(k.s) : k.s[i] # " "
IsBlank(k) == k.t = "absent" \/ (k.t = "str" /\ \A i \in 1..Len(k.s) : k.s[i] = " ")

\* The request handled last was the inbound frame `action` on a chat socket.
\* Until the next request only queued group messages are handled, so the
\* store is as the handler left it and `pre` is as the handler found it.
LastReceived(action) ==
    /\ lastOp.op = "receive"
    /\ lastOp.conn \in ChatConns
    /\ lastOp.arg.action = action

\* Group messages put on the channel of c so far, and the n-th of them:
\* the frame written for it, or the message itself while it is queued.
Delivered(c) == Len(chan[c]) + Len(sent[c])
Item(c, n) == IF n <= Len(sent[c]) THEN sent[c][n] ELSE chan[c][n - Len(sent[c])]

\* The last request put exactly one group message on each channel of
\* `members` and none on any other.
DeliveredOnceTo(members) ==
    \A d \in Conns : Delivered(d) = pre.count[d] + (IF d \in members THEN 1 ELSE 0)

\* The chat.message events and message.created frames a connection holds:
\* queued on its channel or already written to its client.
MessageEventsOf(c) ==
    {chan[c][i].message : i \in {k \in 1..Len(chan[c]) : chan[c][k].type = "chat.message"}}
    \cup {sent[c][i].message :
            i \in {k \in 1..Len(sent[c]) :
                     connKind[c] = "chat" /\ sent[c][k].event = "message.created"}}

Copies(c, mid) ==
    Cardinality({k \in 1..Len(chan[c]) :
                    chan[c][k].type = "chat.message" /\ chan[c][k].message.id = mid})
    + Cardinality({k \in 1..Len(sent[c]) :
                    /\ connKind[c] = "chat"
                    /\ sent[c][k].event = "message.created"
                    /\ sent[c][k].message.id = mid})

\* C3: a `message` frame with text, handled by an open chat socket of an
\* existing conversation, adds exactly one Message row (the trimmed text,
\* the socket's conversation and user) and puts exactly one chat.message
\* on the socket's group, carrying the row's id, timestamp and content.
C3_MessagePersistedAndBroadcast ==
    (/\ LastReceived("message")
     /\ HasText(lastOp.arg.content)
     /\ lastOp.convo \in convos)
    => LET c == lastOp.conn
           G == groups[ConvoGroup(connConvo[c])]
           n == Len(pre.messages)
       IN  /\ Len(messages) = n + 1
           /\ SubSeq(messages, 1, n) = pre.messages
           /\ LET row == messages[Len(messages)]
              IN  /\ IsTrimOf(row.content, lastOp.arg.content.s)
                  /\ row.conversation = connConvo[c]
                  /\ row.sender = connUser[c]
                  /\ \A i \in 1..n : pre.messages[i].id # row.id
                  /\ DeliveredOnceTo(G)
                  /\ \A d \in G :
                        /\ Copies(d, row.id) = 1
                        /\ \A p \in MessageEventsOf(d) :
                              p.id = row.id
                              => /\ p.timestamp = isoformat(row.timestamp)
                                 /\ p.content = row.content

\* C3 witness: a padded text arrived on a socket and its row, trimmed, is
\* in the store.
C3_Witness ==
    /\ LastReceived("message")
    /\ lastOp.arg.content = Str(<<" ", "a">>)
    /\ lastOp.status = "ok"
    /\ \E i \in 1..Len(messages) :
          /\ messages[i].id = lastOp.result
          /\ messages[i].content = <<"a">>

\* C4: a `message` frame whose content is absent, empty or blank persists
\* nothing, broadcasts nothing and leaves the socket open.
C4_BlankMessageIgnored ==
    (LastReceived("message") /\ IsBlank(lastOp.arg.content))
    => /\ messages = pre.messages
       /\ reads = pre.reads
       /\ DeliveredOnceTo({})
       /\ connState[lastOp.conn] = "OPEN"
       /\ raised[lastOp.conn] = "none"
       /\ lastOp.conn \in groups[groupName[lastOp.conn]]

\* C4 witness: a message of one blank has been handled while the store
\* held a row and the socket's group another member.
C4_Witness ==
    /\ LastReceived("message")
    /\ lastOp.arg.content = Str(<<" ">>)
    /\ connState[lastOp.conn] = "OPEN"
    /\ messages # << >>
    /\ groups[groupName[lastOp.conn]] # {lastOp.conn}

\* Messages of conversation cid that user did not send and has no marker
\* for, in the store (ms, rs).
UnreadCount(ms, rs, user, cid) ==
    Cardinality({i \in 1..Len(ms) :
        /\ ms[i].conversation = cid
        /\ ms[i].sender # user
        /\ ~\E j \in 1..Len(rs) : rs[j] = [message |-> ms[i].id, user |-> user]})

Markers(rs, mid, user) ==
    Cardinality({j \in 1..Len(rs) : rs[j] = [message |-> mid, user |-> user]})

\* The group message delivered last to d is ev: still queued, or written
\* to the client as `frame`.
Newest(d, ev, frame) ==
    /\ Delivered(d) > 0
    /\ IF chan[d] # << >> THEN chan[d][Len(chan[d])] = ev ELSE sent[d][Len(sent[d])] = frame

\* C5: a `read` by principal P on an existing conversation C broadcasts
\* updated = K, the number of messages of C that P did not send and had
\* not read; a `read` that follows a `read` of P on C directly broadcasts
\* updated = 0; afterwards every message of C not sent by P has exactly one
\* marker of P and no (message, user) pair has two.
C5_ReadTwice ==
    (LastReceived("read") /\ lastOp.convo \in convos)
    => LET c == lastOp.conn
           P == connUser[c]
           C == connConvo[c]
           K == UnreadCount(pre.messages, pre.reads, P, C)
       IN  /\ DeliveredOnceTo(groups[ConvoGroup(C)])
           /\ \A d \in groups[ConvoGroup(C)] :
                 Newest(d, [type |-> "chat.read", user_id |-> P, updated |-> K],
                           [event |-> "read", user_id |-> P, updated |-> K])
           /\ lastOp.streak = 2 => K = 0
           /\ UnreadCount(messages, reads, P, C) = 0
           /\ messages = pre.messages
           /\ \A i \in 1..Len(messages) :
                 (messages[i].conversation = C /\ messages[i].sender # P)
                 => Markers(reads, messages[i].id, P) = 1
           /\ \A i \in 1..Len(messages), u \in Users :
                 Markers(reads, messages[i].id, u) <= 1

\* C5 witness: user 2 has read conversation 1 twice in a row; the second
\* read reported 0 and the marker of the first is in the store.
C5_Witness ==
    /\ LastReceived("read")
    /\ lastOp.streak = 2
    /\ lastOp.result = 0
    /\ Markers(reads, 1, lastOp.user) = 1

\* C6: when a valid `message` frame is handled while N connections are in
\* the socket's group, each of the N, the sender's included, gets exactly
\* one copy of the message and every other connection none; a copy stays
\* one copy when chat_message writes it to the client; no connection ever
\* holds two copies of one message.
C6_FanOut ==
    /\ \A c \in Conns, mid \in 1..(nextId - 1) : Copies(c, mid) <= 1
    /\ (/\ LastReceived("message")
        /\ HasText(lastOp.arg.content)
        /\ lastOp.convo \in convos)
       => LET G == groups[ConvoGroup(lastOp.convo)]
          IN  /\ lastOp.conn \in G
              /\ lastOp.result = nextId - 1
              /\ \A i \in 1..Len(pre.messages) : pre.messages[i].id < lastOp.result
              /\ \A d \in Conns :
                    /\ Copies(d, lastOp.result) = (IF d \in G THEN 1 ELSE 0)
                    /\ Delivered(d) - pre.count[d] = (IF d \in G THEN 1 ELSE 0)
              /\ Cardinality({d \in Conns : Delivered(d) # pre.count[d]}) = Cardinality(G)

\* C6 witness: the message a socket sent has reached the client of the
\* sender and the client of the other member of the group.
C6_Witness ==
    /\ LastReceived("message")
    /\ lastOp.result > 0
    /\ \E d \in ChatConns \ {lastOp.conn} :
          /\ \E k \in 1..Len(sent[d]) :
                sent[d][k].event = "message.created" /\ sent[d][k].message.id = lastOp.result
          /\ \E k \in 1..Len(sent[lastOp.conn]) :
                /\ sent[lastOp.conn][k].event = "message.created"
                /\ sent[lastOp.conn][k].message.id = lastOp.result

RowOf(ms, p) ==
    \E i \in 1..Len(ms) : ms[i].id = p.id /\ isoformat(ms[i].timestamp) = p.timestamp

\* The message an item carries, when it is a chat.message or the frame
\* written for one.
IsMessageItem(c, x) ==
    IF connKind[c] # "chat" THEN FALSE
    ELSE IF "type" \in DOMAIN x THEN x.type = "chat.message"
    ELSE x.event = "message.created"

\* C9: on the socket path and on the REST path, the chat.message a request
\* puts on a channel has its Message row in the store when the request is
\* done, with the id and the timestamp the event carries; every message
\* event a connection holds has an id the store has handed out, and agrees
\* with the row of that id for as long as the row exists.
C9_PersistBeforeBroadcast ==
    /\ \A c \in Conns : \A n \in (pre.count[c] + 1)..Delivered(c) :
          IsMessageItem(c, Item(c, n)) => RowOf(messages, Item(c, n).message)
    /\ \A c \in Conns : \A p \in MessageEventsOf(c) :
          /\ p.id < nextId
          /\ \A i \in 1..Len(messages) :
                messages[i].id = p.id => isoformat(messages[i].timestamp) = p.timestamp

\* C9 witness: one client has been sent a message created over REST and a
\* message created over its group's socket.
C9_Witness ==
    \E c \in ChatConns : \E i, j \in 1..Len(sent[c]) :
        /\ sent[c][i].event = "message.created"
        /\ sent[c][j].event = "message.created"
        /\ "attachments" \in DOMAIN sent[c][i].message
        /\ "attachments" \notin DOMAIN sent[c][j].message

\* C10: after a `message` or `read` whose persistence call raised, the
\* socket is still open and still in its group.
C10_FailureKeepsSocketOpen ==
    \A c \in ChatConns :
        raised[c] = "DoesNotExist"
        => connState[c] = "OPEN" /\ c \in groups[ConvoGroup(connConvo[c])]

\* C11: however the `read` operations of one principal on one conversation
\* interleave, from its sockets and from the REST mark-read endpoint, no
\* (message, user) pair has two markers, every marker is one some operation
\* chose, and no operation ends in an exception.
C11_NoDuplicateMarkers ==
    /\ \A j, k \in 1..Len(reads) : reads[j] = reads[k] => j = k
    /\ \A j \in 1..Len(reads) :
          \E i \in 1..Len(messages) :
              messages[i].id = reads[j].message /\ messages[i].sender # reads[j].user
    /\ \A c \in ChatConns : task[c].pc # "idle" => raised[c] = "none"
    /\ lastOp.op \in {"mark", "rest_mark"} => lastOp.status \in {"ok", "200"}

\* C11 witness: an insert of user 2 met the marker that an interleaved read
\* of user 2 had inserted after both had selected the same unread message.
C11_Witness ==
    /\ lastOp.op \in {"mark", "rest_mark"}
    /\ lastOp.user = 2
    /\ lastOp.result = 1
    /\ reads = pre.reads
    /\ Markers(reads, 1, 2) = 1

\* C12: the count a `read` reports is the number of markers that operation
\* created, also when reads of one principal interleave, and the counts
\* reported for a principal never add up to more than its markers.
C12_CountIsNewlyCreated ==
    /\ lastOp.op \in {"mark", "rest_mark"} => lastOp.result = Len(reads) - Len(pre.reads)
    /\ \A u \in Users :
          reported[u] <= Cardinality({j \in 1..Len(reads) : reads[j].user = u})

\* C13: a message or a read marker is persisted through a conversation
\* socket only while the socket's user is a participant of the conversation
\* in the store at that moment.
C13_SideEffectsNeedMembership ==
    (/\ lastOp.op = "receive"
     /\ lastOp.conn \in ChatConns
     /\ (messages # pre.messages \/ reads # pre.reads))
    => /\ lastOp.convo \in convos
       /\ lastOp.user \in participants[lastOp.convo]

\* C14: when connect() of a conversation socket turns an authenticated user
\* away, because the user is no participant or because the path names no
\* conversation, the socket is closed with 4403, never accepted and in no
\* group.
C14_AuthorizationFailureCloses ==
    (/\ lastOp.op = "connect"
     /\ lastOp.conn \in ChatConns
     /\ lastOp.user # Anon
     /\ (lastOp.convo \notin convos \/ lastOp.user \notin participants[lastOp.convo]))
    => /\ closeCode[lastOp.conn] = FORBIDDEN
       /\ raised[lastOp.conn] = "none"
       /\ ~accepted[lastOp.conn]
       /\ InNoGroup(lastOp.conn)

C15_BroadcastFailureKeepsRest ==
    /\ lastOp.op \in {"rest_message", "rest_mark"} => lastOp.status # "500"
    /\ (lastOp.op = "rest_message" /\ lastOp.arg.fault # "none")
       => /\ lastOp.status = "201"
          /\ Len(messages) = Len(pre.messages) + 1
          /\ SubSeq(messages, 1, Len(pre.messages)) = pre.messages
          /\ messages[Len(messages)].id = lastOp.result
          /\ messages[Len(messages)].sender = lastOp.user
          /\ messages[Len(messages)].conversation = lastOp.convo
    /\ (lastOp.op = "rest_mark" /\ lastOp.arg.fault # "none")
       => /\ lastOp.status = "200"
          /\ lastOp.result = Len(reads) - Len(pre.reads)
          /\ lastOp.result = UnreadCount(pre.messages, pre.reads, lastOp.user, lastOp.convo)
          /\ UnreadCount(messages, reads, lastOp.user, lastOp.convo) = 0

\* C15 witness: a message was created over REST while the broadcast to its
\* conversation, whose group has members, raised: the row is stored and no
\* connection got anything.
C15_Witness ==
    /\ lastOp.op = "rest_message"
    /\ lastOp.arg.fault = "broadcast"
    /\ lastOp.status = "201"
    /\ \E i \in 1..Len(messages) : messages[i].id = lastOp.result
    /\ groups[ConvoGroup(lastOp.convo)] # {}
    /\ DeliveredOnceTo({})

\* C17: a frame whose action is unknown or absent, or whose payload is
\* malformed (a `message` whose content is not a string), persists nothing,
\* broadcasts nothing and leaves the socket open.
C17_UnknownOrMalformedIgnored ==
    (/\ lastOp.op = "receive"
     /\ lastOp.conn \in ChatConns
     /\ \/ lastOp.arg.action \in {"other", "absent"}
        \/ lastOp.arg.action = "message" /\ lastOp.arg.content = NonString)
    => /\ messages = pre.messages
       /\ reads = pre.reads
       /\ DeliveredOnceTo({})
       /\ raised[lastOp.conn] = "none"
       /\ connState[lastOp.conn] = "OPEN"

\* The data perform_create publishes for conversation cid.
ConversationUpdated(cid) == [event |-> "conversation.updated", conversation_id |-> cid]

\* C18: a notification published for user U reaches every connection of
\* group user_U, and no other, as exactly the published data; a
\* notification socket writes nothing but published data, and a frame it
\* receives from its client makes it write nothing.
C18_NotificationVerbatim ==
    /\ \A n \in NotifConns :
          /\ \A k \in 1..Len(sent[n]) : \E cid \in ConvIds : sent[n][k] = ConversationUpdated(cid)
          /\ \A k \in 1..Len(chan[n]) :
                \E cid \in ConvIds :
                    chan[n][k] = [type |-> "notify", data |-> ConversationUpdated(cid)]
    /\ (/\ lastOp.op = "rest_message"
        /\ lastOp.status = "201"
        /\ lastOp.arg.fault = "none"
        /\ lastOp.convo \in convos)
       => LET Targets == participants[lastOp.convo] \ {lastOp.user}
              D == ConversationUpdated(lastOp.convo)
          IN  \A n \in NotifConns :
                 IF \E U \in Targets : n \in groups[UserGroup(U)]
                 THEN /\ Delivered(n) = pre.count[n] + 1
                      /\ Newest(n, [type |-> "notify", data |-> D], D)
                 ELSE Delivered(n) = pre.count[n]
    /\ (lastOp.op = "receive" /\ lastOp.conn \in NotifConns)
       => /\ \A d \in Conns : Delivered(d) = pre.count[d]
          /\ connState[lastOp.conn] = "OPEN"

\* C18 witness: the notification socket of user 2 has written the data
\* published when another participant posted over REST.
C18_Witness ==
    /\ lastOp.op = "rest_message"
    /\ lastOp.status = "201"
    /\ lastOp.user # 2
    /\ \E n \in NotifConns :
          /\ connUser[n] = 2
          /\ chan[n] = << >>
          /\ sent[n] # << >>
          /\ sent[n][Len(sent[n])] = ConversationUpdated(lastOp.convo)
          /\ Delivered(n) = pre.count[n] + 1

\* What receive_json does for frame f: a write to the store, a group_send.
Stores(f) == f.action = "read" \/ (f.action = "message" /\ HasText(f.content))
Sends(f) == f.action = "typing" \/ Stores(f)

\* C19: a connection handles its frames in arrival order, one at a time:
\* the k-th run is for the k-th frame that arrived, its write comes before
\* its group_send, and the run of frame k+1 starts only after the run of
\* frame k has ended, whatever the other connections and requests do.
C19_InArrivalOrder ==
    \A c \in ChatConns : \A i \in 1..Len(log[c]) :
        LET k == log[c][i][1]
            step == log[c][i][2]
            before == IF i = 1 THEN <<0, "end">> ELSE log[c][i - 1]
        IN  /\ k \in 1..Len(inbox[c])
            /\ step = "start" => before = <<k - 1, "end">>
            /\ step = "store" => before = <<k, "start">> /\ Stores(inbox[c][k])
            /\ step = "send"
               => /\ Sends(inbox[c][k])
                  /\ before = (IF Stores(inbox[c][k]) THEN <<k, "store">> ELSE <<k, "start">>)
            /\ step = "end"
               => before = (IF Sends(inbox[c][k]) THEN <<k, "send">> ELSE <<k, "start">>)

\* C19 witness: a socket has finished two frames that both write and send
\* while the run of another socket is between its write and its send.
C19_Witness ==
    \E c \in ChatConns, d \in ChatConns :
        /\ c # d
        /\ Len(inbox[c]) = 2
        /\ Stores(inbox[c][1]) /\ Stores(inbox[c][2])
        /\ log[c] # << >> /\ log[c][Len(log[c])] = <<2, "end">>
        /\ task[d].pc = "send"
        /\ log[d] # << >> /\ log[d][Len(log[d])] = <<1, "store">>

\* C20: a frame is written to a connection only while it is OPEN: a group
\* message put on its channel between its group_add and its accept(), or
\* before its disconnect(), is not written while the connection is not yet
\* accepted nor after it is closed.
C20_DeliveredOnlyWhenOpen ==
    /\ [](\A c \in Conns : sent[c] # << >> => accepted[c])
    /\ [][\A c \in Conns :
            sent'[c] # sent[c]
            => /\ connState[c] = "OPEN"
               /\ accepted[c]
               /\ connState'[c] = "OPEN"]_vars

\* C20 witness: a joined socket that is not yet accepted has a group
\* message on its channel, and so has a socket that was closed.
C20_Witness ==
    \E c \in Conns, d \in Conns :
        /\ connState[c] = "JOINED" /\ ~accepted[c] /\ chan[c] # << >>
        /\ connState[d] = "CLOSED" /\ chan[d] # << >>

\* C21: a connection that was open and is open no longer is a member of no
\* group, so that no later broadcast is put on its channel.
C21_ClosedLeavesGroup ==
    \A c \in Conns : (accepted[c] /\ connState[c] # "OPEN") => InNoGroup(c)

\* C22: a conversation socket is in no group but convo_<id> of its own path
\* and a notification socket in no group but user_<id> of its own user.
C22_OneGroupPerConnection ==
    \A c \in Conns, g \in GroupIds :
        c \in groups[g]
        => /\ connKind[c] = "chat" => g = <<"convo", connConvo[c]>>
           /\ connKind[c] = "notif" => g = <<"user", connUser[c]>>
           /\ connKind[c] \in {"chat", "notif"}
           /\ g = groupName[c]

\* C22 witness: the two conversation sockets sit in different conversation
\* groups while the notification socket sits in its user's group.
C22_Witness ==
    /\ \A c \in ChatConns : connConvo[c] \in ConvIds
    /\ \A n \in NotifConns : connUser[n] \in Users
    /\ 1 \in groups[<<"convo", connConvo[1]>>]
    /\ 2 \in groups[<<"convo", connConvo[2]>>]
    /\ connConvo[1] # connConvo[2]
    /\ \E n \in NotifConns : n \in groups[<<"user", connUser[n]>>]

IsChatItem(x) ==
    IF "type" \in DOMAIN x THEN x.type \in {"chat.message", "chat.typing", "chat.read"}
    ELSE "event" \in DOMAIN x /\ x.event \in {"message.created", "typing", "read"}

IsNotifItem(x, cid) ==
    x = ConversationUpdated(cid) \/ x = [type |-> "notify", data |-> ConversationUpdated(cid)]

\* C24: what a request on conversation C broadcasts reaches connections of
\* group convo_C only, never a socket of another conversation and never a
\* notification socket; a notification for user U reaches connections of
\* group user_U only. So a conversation channel holds only events of its
\* own conversation and a notification channel only notifications about
\* conversations of its own user.
C24_GroupIsolation ==
    /\ \A c \in ChatConns : \A n \in 1..Delivered(c) :
          /\ IsChatItem(Item(c, n))
          /\ IsMessageItem(c, Item(c, n))
             => \A i \in 1..Len(messages) :
                   messages[i].id = Item(c, n).message.id
                   => messages[i].conversation = connConvo[c]
    /\ \A c \in NotifConns : \A n \in 1..Delivered(c) :
          \E cid \in ConvIds :
              IsNotifItem(Item(c, n), cid) /\ connUser[c] \in participants[cid]
    /\ lastOp.op \in {"receive", "rest_message", "rest_mark"}
       => \A d \in Conns :
             Delivered(d) > pre.count[d]
             => \/ d \in ChatConns /\ d \in groups[<<"convo", lastOp.convo>>]
                \/ /\ d \in NotifConns
                   /\ lastOp.op = "rest_message"
                   /\ \E U \in participants[lastOp.convo] \ {lastOp.user} :
                         d \in groups[<<"user", U>>]

\* C24 witness: a message of each conversation has been broadcast; the
\* socket of each conversation holds its own and not the other one, and the
\* notification socket of user 1 holds only the one about conversation 1.
C24_Witness ==
    \E i, j \in 1..Len(messages) :
        /\ messages[i].conversation = 1
        /\ messages[j].conversation = 2
        /\ Copies(1, messages[i].id) = 1
        /\ Copies(1, messages[j].id) = 0
        /\ Copies(2, messages[j].id) = 1
        /\ Copies(2, messages[i].id) = 0
        /\ \E n \in NotifConns :
              /\ Delivered(n) = 1
              /\ IsNotifItem(Item(n, 1), 1)

\* C25: what a frame of a conversation socket leaves behind is fixed by the
\* store it found, the socket's user and conversation, and the frame's
\* action and content: the events name the socket's user, a message row has
\* the store's next id and time and the socket's user as sender, the
\* message event repeats the row, and the markers of a read are the
\* socket's user's. No other field of the frame has any effect.
C25_SenderAuthenticity ==
    (lastOp.op = "receive" /\ lastOp.conn \in ChatConns /\ lastOp.status = "ok")
    => LET c == lastOp.conn
           P == connUser[c]
           C == connConvo[c]
           f == lastOp.arg
           G == groups[<<"convo", C>>]
           K == UnreadCount(pre.messages, pre.reads, P, C)
           row == [id |-> nextId - 1, conversation |-> C, sender |-> P,
                   content |-> f.content.s, timestamp |-> clock - 1]
           payload == [id |-> row.id, content |-> row.content, sender_id |-> P,
                       sender |-> username(P), timestamp |-> isoformat(row.timestamp)]
       IN  /\ lastOp.user = P
           /\ f.action = "typing"
              => /\ messages = pre.messages /\ reads = pre.reads
                 /\ DeliveredOnceTo(G)
                 /\ \A d \in G : Newest(d, [type |-> "chat.typing", user_id |-> P],
                                           [event |-> "typing", user_id |-> P])
           /\ (f.action = "message" /\ f.content = Absent)
              => messages = pre.messages /\ reads = pre.reads /\ DeliveredOnceTo({})
           /\ (f.action = "message" /\ f.content = Str(<<"a">>))
              => /\ messages = Append(pre.messages, row)
                 /\ \A i \in 1..Len(pre.messages) : pre.messages[i].id # row.id
                 /\ reads = pre.reads
                 /\ DeliveredOnceTo(G)
                 /\ \A d \in G : Newest(d, [type |-> "chat.message", message |-> payload],
                                           [event |-> "message.created", message |-> payload])
           /\ f.action = "read"
              => /\ messages = pre.messages
                 /\ Len(reads) = Len(pre.reads) + K
                 /\ SubSeq(reads, 1, Len(pre.reads)) = pre.reads
                 /\ \A j \in (Len(pre.reads) + 1)..Len(reads) : reads[j].user = P
                 /\ UnreadCount(messages, reads, P, C) = 0
                 /\ DeliveredOnceTo(G)
                 /\ \A d \in G :
                       Newest(d, [type |-> "chat.read", user_id |-> P, updated |-> K],
                                 [event |-> "read", user_id |-> P, updated |-> K])

\* C25 witness: a message frame that named another user, an id and a
\* timestamp was stored under the socket's user with the store's id, and
\* the other socket of the group has written it so to its client.
C25_Witness ==
    /\ LastReceived("message")
    /\ "user_id" \in DOMAIN lastOp.arg
    /\ lastOp.arg.user_id # connUser[lastOp.conn]
    /\ lastOp.result \notin {0, lastOp.arg.id}
    /\ messages[Len(messages)].sender = connUser[lastOp.conn]
    /\ \E d \in ChatConns \ {lastOp.conn} :
          /\ chan[d] = << >>
          /\ sent[d] # << >>
          /\ sent[d][Len(sent[d])].event = "message.created"
          /\ sent[d][Len(sent[d])].message.sender_id = connUser[lastOp.conn]
          /\ sent[d][Len(sent[d])].message.id = lastOp.result

\* The rows user u has created since the sockets opened, and the ids of u's
\* messages among the items of connection d, both in order.
RowsSince(u) ==
    LET Mine(m) == m.sender = u
    IN  SelectSeq(SubSeq(messages, Len(pre.messages) + 1, Len(messages)), Mine)

ItemsFrom(d, u) ==
    LET Mine(x) == IsMessageItem(d, x) /\ x.message.sender_id = u
    IN  SelectSeq([n \in 1..Delivered(d) |-> Item(d, n)], Mine)

\* C26: the messages one connection sends are persisted in the order their
\* frames arrived, and every connection of the group gets their
\* message.created events in that same order, whatever the other
\* connections send in between.
C26_PerConnectionOrder ==
    \A c \in ChatConns :
        LET rows == RowsSince(connUser[c])
        IN  /\ Len(rows) <= Len(inbox[c])
            /\ \A i \in 1..Len(rows) : rows[i].content = inbox[c][i].content.s
            /\ \A i, j \in 1..Len(rows) :
                  i < j => rows[i].id < rows[j].id /\ rows[i].timestamp <= rows[j].timestamp
            /\ \A d \in groups[<<"convo", connConvo[c]>>] :
                  LET got == ItemsFrom(d, connUser[c])
                  IN  /\ Len(got) <= Len(rows)
                      /\ \A n \in 1..Len(got) :
                            /\ got[n].message.id = rows[n].id
                            /\ got[n].message.content = rows[n].content

\* C26 witness: a client has been sent both messages of one connection in
\* their order, different texts, and between them a message of the other
\* connection that was persisted before both.
C26_Witness ==
    \E d \in ChatConns : \E i, j, k \in 1..Len(sent[d]) :
        /\ i < j /\ j < k
        /\ sent[d][i].message.sender_id = sent[d][k].message.sender_id
        /\ sent[d][j].message.sender_id # sent[d][i].message.sender_id
        /\ sent[d][i].message.id < sent[d][k].message.id
        /\ sent[d][i].message.content # sent[d][k].message.content
        /\ sent[d][j].message.id < sent[d][i].message.id

\* C27: a REST request that returns messages of a conversation comes from
\* a participant of it; the request of anyone else is turned away and
\* returns no message.
C27_OnlyParticipantsRead ==
    (lastOp.op \in {"rest_messages", "rest_detail"} /\ lastOp.convo \in convos)
    => IF lastOp.user \in participants[lastOp.convo]
       THEN lastOp.status = "200"
       ELSE lastOp.status \in {"401", "403", "404"} /\ lastOp.result = 0

\* C28: a message created over REST is stored and answered with 201 however
\* its deliveries go. When none raises, every connection of the
\* conversation's group gets the message and every notification connection
\* of a participant other than the sender gets one conversation.updated,
\* the sender's none; when the broadcast raises nothing at all is
\* delivered; when a notification raises the broadcast has been delivered
\* and no notification is.
C28_NotifyAfterBroadcast ==
    (lastOp.op = "rest_message" /\ lastOp.status = "201")
    => LET C == lastOp.convo
           Others == participants[C] \ {lastOp.user}
           G == groups[<<"convo", C>>]
           N == {n \in NotifConns : \E U \in Others : n \in groups[<<"user", U>>]}
           D == ConversationUpdated(C)
       IN  /\ Len(messages) = Len(pre.messages) + 1
           /\ messages[Len(messages)].id = lastOp.result
           /\ \A n \in NotifConns :
                 n \in groups[<<"user", lastOp.user>>] => Delivered(n) = pre.count[n]
           /\ lastOp.arg.fault = "none"
              => /\ DeliveredOnceTo(G \cup N)
                 /\ \A n \in N : Newest(n, [type |-> "notify", data |-> D], D)
           /\ lastOp.arg.fault = "broadcast" => DeliveredOnceTo({})
           /\ lastOp.arg.fault = "notify" => DeliveredOnceTo(G)

\* C28 witness: user 1 posted to conversation 1 and the notification of
\* user 2 raised: the sockets of the conversation got the message, the
\* notification socket of user 2 got nothing.
C28_Witness ==
    /\ lastOp.op = "rest_message"
    /\ lastOp.status = "201"
    /\ lastOp.arg.fault = "notify"
    /\ lastOp.user = 1
    /\ \E n \in NotifConns :
          /\ n \in groups[<<"user", 2>>]
          /\ Delivered(n) = pre.count[n]
    /\ \E d \in ChatConns :
          /\ Delivered(d) = pre.count[d] + 1
          /\ Copies(d, lastOp.result) = 1

\* C29: a message created through a conversation socket puts nothing on
\* any notification connection: only the connections of convo_<id> get
\* anything. The same message created over REST puts one notification on
\* every notification connection of every participant but the sender.
C29_SocketMessageNotifiesNobody ==
    /\ (LastReceived("message") /\ lastOp.status = "ok")
       => /\ \A n \in NotifConns : Delivered(n) = pre.count[n]
          /\ \A d \in Conns :
                Delivered(d) > pre.count[d] => d \in groups[<<"convo", lastOp.convo>>]
    /\ (lastOp.op = "rest_message" /\ lastOp.status = "201" /\ lastOp.arg.fault = "none")
       => \A U \in participants[lastOp.convo] \ {lastOp.user} :
             \A n \in groups[<<"user", U>>] :
                 /\ Delivered(n) = pre.count[n] + 1
                 /\ Newest(n, [type |-> "notify", data |-> ConversationUpdated(lastOp.convo)],
                           ConversationUpdated(lastOp.convo))

\* C29 witness: a message was sent through a socket of conversation 1 whose
\* other participant has a notification socket and no conversation socket:
\* the sender's socket holds the message, the notification socket nothing.
C29_Witness ==
    /\ LastReceived("message")
    /\ lastOp.result > 0
    /\ Copies(lastOp.conn, lastOp.result) = 1
    /\ \E n \in NotifConns :
          /\ connUser[n] \in participants[lastOp.convo] \ {lastOp.user}
          /\ n \in groups[<<"user", connUser[n]>>]
          /\ \A d \in ChatConns : connUser[d] # connUser[n]
          /\ Delivered(n) = 0

\* The markers a read of user P on conversation C has to add to the store
\* (ms, rs): one for each message of C that P did not send and has no
\* marker of P, in the order of the messages.
ExpectedMarkers(ms, rs, P, C) ==
    LET Unread(m) == /\ m.conversation = C
                     /\ m.sender # P
                     /\ Markers(rs, m.id, P) = 0
        rows == SelectSeq(ms, Unread)
    IN  [i \in 1..Len(rows) |-> [message |-> rows[i].id, user |-> P]]

\* The request handled last was a read of a participant that went through:
\* the `read` frame of a socket, or the mark-read endpoint.
ReadBySocket ==
    /\ LastReceived("read")
    /\ lastOp.status = "ok"
    /\ lastOp.convo \in convos
    /\ lastOp.user \in participants[lastOp.convo]

ReadByRest ==
    /\ lastOp.op = "rest_mark"
    /\ lastOp.status = "200"
    /\ lastOp.arg.fault = "none"

\* C30: a read of participant P on conversation C does the same over a
\* socket and over the mark-read endpoint: from the store it found it adds
\* exactly the markers of P for the messages of C that P did not send and
\* had not read, reports their number, and puts one read event with P's id
\* and that number on every connection of convo_C.
C30_ReadPathsAgree ==
    (ReadBySocket \/ ReadByRest)
    => LET P == lastOp.user
           C == lastOp.convo
           new == ExpectedMarkers(pre.messages, pre.reads, P, C)
           G == groups[<<"convo", C>>]
       IN  /\ messages = pre.messages
           /\ reads = pre.reads \o new
           /\ lastOp.result = Len(new)
           /\ DeliveredOnceTo(G)
           /\ \A d \in G :
                 Newest(d, [type |-> "chat.read", user_id |-> P, updated |-> Len(new)],
                           [event |-> "read", user_id |-> P, updated |-> Len(new)])

\* C30 witness: user 2 marked conversation 1 read over REST, which added a
\* marker, and a socket of the conversation that had got the read event of
\* a socket before now holds the one of the endpoint as well.
C30_Witness ==
    /\ ReadByRest
    /\ lastOp.result = 1
    /\ Markers(reads, 1, lastOp.user) = 1
    /\ \E d \in ChatConns :
          /\ Delivered(d) = 2
          /\ Item(d, 1) \in {[type |-> "chat.read", user_id |-> 1, updated |-> 0],
                             [event |-> "read", user_id |-> 1, updated |-> 0]}
          /\ Newest(d, [type |-> "chat.read", user_id |-> lastOp.user, updated |-> 1],
                       [event |-> "read", user_id |-> lastOp.user, updated |-> 1])
====
